---- MODULE Spec2Model ----
(***************************************************************************)
(* Data contracts for tabular datasets: infer_contract derives a Contract  *)
(* from a DataFrame, validate_contract checks a DataFrame against a        *)
(* Contract, compare_contracts reports the drift between two Contracts and *)
(* summarize_violations ranks the issues of a ValidationResult.            *)
(* All are synchronous calls; a state of the model is one call with its    *)
(* arguments and its outcome (a returned value or a raised error).         *)
(***************************************************************************)
EXTENDS Integers, Sequences, FiniteSets, TLC

VARIABLES op, df, contract, strict, result, error, contract_b, report, drift,
          top_k, weights, summary, message, issues_after

vars == <<op, df, contract, strict, result, error, contract_b, report, drift,
          top_k, weights, summary, message, issues_after>>

(***************************************************************************)
(* Bounds of the model.                                                    *)
(***************************************************************************)
\* rows of a single-column DataFrame
MaxRows == 4
\* rows of a two-column DataFrame, and of a column validated against the full rule set
MaxWideRows == 2
\* the longest issue list that is summarized with every top_k and weights
MaxIssues == 3

(***************************************************************************)
(* Cells of a pandas column.  IsNa is pandas' isna()/isnull(): None, NaN.  *)
(***************************************************************************)
Cell(t, n, s) == [t |-> t, n |-> n, s |-> s]
IntCell(n) == Cell("int", n, "")
FloatCell(n) == Cell("float", n, "")
BoolCell(b) == Cell("bool", IF b THEN 1 ELSE 0, "")
StrCell(s) == Cell("str", 0, s)
NaNCell == Cell("nan", 0, "")
NoneCell == Cell("none", 0, "")

IsNa(c) == c.t \in {"nan", "none"}

(***************************************************************************)
(* Python values of the optional float fields of a ColumnRule: None, NaN,  *)
(* or a finite float, kept as a reduced fraction num/den.                  *)
(***************************************************************************)
PyNone == [k |-> "none", num |-> 0, den |-> 1]
FNaN == [k |-> "nan", num |-> 0, den |-> 1]
\* a value that is not a number, such as the str "high"
PyText == [k |-> "text", num |-> 0, den |-> 1]

RECURSIVE Gcd(_, _)
Gcd(a, b) == IF b = 0 THEN a ELSE Gcd(b, a % b)

Abs(n) == IF n < 0 THEN 0 - n ELSE n

\* the float num/den, den > 0
F(num, den) ==
    LET g == Gcd(Abs(num), den)
    IN  [k |-> "num", num |-> num \div g, den |-> den \div g]

\* Python's < and > on floats: every ordered comparison with NaN is False
FloatLt(a, b) == a.k = "num" /\ b.k = "num" /\ a.num * b.den < b.num * a.den
FloatGt(a, b) == FloatLt(b, a)

\* float(x) of a numpy scalar x
PyFloat(c) == IF IsNa(c) THEN FNaN ELSE F(c.n, 1)

\* numpy scalar < float, numpy scalar > float
CellLt(c, f) == FloatLt(PyFloat(c), f)
CellGt(c, f) == FloatGt(PyFloat(c), f)

(***************************************************************************)
(* str(x) of a cell, as infer_contract applies it, and ndarray.astype(str) *)
(* of a cell, as validate_contract applies it.                             *)
(***************************************************************************)
PyStr(c) ==
    CASE c.t = "int" -> ToString(c.n)
      [] c.t = "float" -> ToString(c.n) \o ".0"
      [] c.t = "bool" -> IF c.n = 1 THEN "True" ELSE "False"
      [] c.t = "str" -> c.s
      [] c.t = "nan" -> "nan"
      [] OTHER -> "None"

AsTypeStr(c) ==
    CASE c.t = "int" -> ToString(c.n)
      [] c.t = "float" -> ToString(c.n) \o ".0"
      [] c.t = "bool" -> IF c.n = 1 THEN "True" ELSE "False"
      [] c.t = "str" -> c.s
      [] c.t = "nan" -> "nan"
      [] OTHER -> "None"

(***************************************************************************)
(* Series: a column of a DataFrame, [name, dtype, values].                 *)
(***************************************************************************)
Range(seq) == {seq[i] : i \in DOMAIN seq}

\* s.dropna().unique(): the distinct non-missing cells
DropNaUnique(s) == {c \in Range(s.values) : ~IsNa(c)}

\* s.notna().any()
NotNaAny(s) == \E i \in DOMAIN s.values : ~IsNa(s.values[i])

\* number of missing entries
NaCount(s) == Cardinality({i \in DOMAIN s.values : IsNa(s.values[i])})

\* s.isna().mean(): NaN for a series without rows
IsNaMean(s) ==
    IF Len(s.values) = 0 THEN FNaN ELSE F(NaCount(s), Len(s.values))

\* s.min(), s.max(): missing cells are skipped; NaN when nothing is left
SeriesMin(s) ==
    IF ~NotNaAny(s) THEN NaNCell
    ELSE CHOOSE c \in DropNaUnique(s) : \A d \in DropNaUnique(s) : c.n <= d.n

SeriesMax(s) ==
    IF ~NotNaAny(s) THEN NaNCell
    ELSE CHOOSE c \in DropNaUnique(s) : \A d \in DropNaUnique(s) : c.n >= d.n

\* pandas.api.types.is_numeric_dtype: integer, float and bool dtypes
is_numeric_dtype(s) == s.dtype \in {"int64", "float64", "bool"}

\* pandas.api.types.is_bool_dtype
is_bool_dtype(s) == s.dtype = "bool"

(***************************************************************************)
(* The types of types.py.  A dict keeps its insertion order, so the        *)
(* columns of a Contract are a sequence of entries with distinct names.    *)
(***************************************************************************)
\* Optional[Set[str]]
NoValues == [none |-> TRUE, vals |-> {}]
Values(S) == [none |-> FALSE, vals |-> S]

ColumnRule(dtype, max_missing_frac, min_value, max_value, allowed_values) ==
    [kind |-> "ColumnRule",
     dtype |-> dtype, max_missing_frac |-> max_missing_frac,
     min_value |-> min_value, max_value |-> max_value,
     allowed_values |-> allowed_values]

\* a value in the place of a ColumnRule that is not one
NotARule(kind) ==
    [kind |-> kind,
     dtype |-> "", max_missing_frac |-> PyNone,
     min_value |-> PyNone, max_value |-> PyNone,
     allowed_values |-> NoValues]

Contract(columns) == [kind |-> "Contract", name |-> "contract", columns |-> columns]

\* payloads of Issue.observed and Issue.expected: a string, a number or a set of strings
PText(s) == [p |-> "text", s |-> s, f |-> PyNone, vals |-> {}]
PNum(f) == [p |-> "num", s |-> "", f |-> f, vals |-> {}]
PSet(S) == [p |-> "set", s |-> "", f |-> PyNone, vals |-> S]

Issue(kind, column, expected, observed) ==
    [kind |-> kind, column |-> column, expected |-> expected, observed |-> observed]

ValidationResult(ok, issues) == [kind |-> "ValidationResult", ok |-> ok, issues |-> issues]

\* a value in the place of a ValidationResult that is not one
NotAResult(kind) == [kind |-> kind, ok |-> FALSE, issues |-> <<>>]

\* a Summary whose ok tells whether there is nothing to report
SummaryOkFromIssues(ok, top_issues, counts_by_kind) ==
    [ok |-> top_issues = <<>>, top_issues |-> top_issues, counts_by_kind |-> counts_by_kind]

Summary(ok, top_issues, counts_by_kind) ==
    [ok |-> ok, top_issues |-> top_issues, counts_by_kind |-> counts_by_kind]

\* a DataFrame and the values that are not one
DataFrame(columns) == [kind |-> "DataFrame", columns |-> columns]
NotAFrame(kind) == [kind |-> kind, columns |-> <<>>]
NotAContract(kind) == [kind |-> kind, name |-> "", columns |-> <<>>]

\* df.columns, contract.columns.keys()
Names(columns) == {columns[i].name : i \in DOMAIN columns}

\* df[col]
Series(frame, col) ==
    frame.columns[CHOOSE i \in DOMAIN frame.columns : frame.columns[i].name = col]

(***************************************************************************)
(* infer_contract                                                          *)
(***************************************************************************)
\* missing_frac with the mean of notna() in place of isna()
missing_frac_notna(s) ==
    IF Len(s.values) = 0 THEN FNaN ELSE F(Len(s.values) - NaCount(s), Len(s.values))

\* missing_frac = float(s.isna().mean())
missing_frac(s) == IsNaMean(s)

\* min_value, max_value: only numeric columns get them
min_value(s) ==
    IF is_numeric_dtype(s)
    THEN IF NotNaAny(s) THEN PyFloat(SeriesMin(s)) ELSE PyNone
    ELSE PyNone

\* max_value with s.min() in place of s.max()
max_value_of_min(s) ==
    IF is_numeric_dtype(s)
    THEN IF NotNaAny(s) THEN PyFloat(SeriesMin(s)) ELSE PyNone
    ELSE PyNone

max_value(s) ==
    IF is_numeric_dtype(s)
    THEN IF NotNaAny(s) THEN PyFloat(SeriesMax(s)) ELSE PyNone
    ELSE PyNone

\* allowed_values with the test s.dtype == "object" for the string columns
allowed_values_object_only(s) ==
    IF s.dtype = "object" \/ s.dtype = "category" \/ is_bool_dtype(s)
    THEN Values({PyStr(c) : c \in DropNaUnique(s)})
    ELSE NoValues

\* allowed_values: only string, object, categorical and bool columns get them
allowed_values(s) ==
    IF s.dtype \in {"object", "str", "string"} \/ s.dtype = "category" \/ is_bool_dtype(s)
    THEN Values({PyStr(c) : c \in DropNaUnique(s)})
    ELSE NoValues

InferRule(s) ==
    ColumnRule(s.dtype, missing_frac(s), min_value(s), max_value(s), allowed_values(s))

\* infer_contract without the isinstance check: df.columns fails instead
infer_contract_unchecked(frame) ==
    IF frame.kind # "DataFrame"
    THEN [error |-> "AttributeError", contract |-> NotAContract("None")]
    ELSE [error |-> "none",
          contract |-> Contract([i \in DOMAIN frame.columns |->
                          [name |-> frame.columns[i].name,
                           rule |-> InferRule(frame.columns[i])]])]

infer_contract(frame) ==
    IF frame.kind # "DataFrame"
    THEN [error |-> "TypeError", contract |-> NotAContract("None")]
    ELSE [error |-> "none",
          contract |-> Contract([i \in DOMAIN frame.columns |->
                          [name |-> frame.columns[i].name,
                           rule |-> InferRule(frame.columns[i])]])]

(***************************************************************************)
(* validate_contract                                                       *)
(***************************************************************************)
\* Optional[str] of Issue.column
NoColumn == [none |-> TRUE, name |-> ""]
Column(col) == [none |-> FALSE, name |-> col]

\* missing_columns = contract_columns - df_columns
missing_columns(frame, c) == Names(c.columns) \ Names(frame.columns)

\* extra_columns = df_columns - contract_columns
extra_columns(frame, c) == Names(frame.columns) \ Names(c.columns)

\* the orders in which a Python set may be iterated
Orders(S) ==
    {o \in [1..Cardinality(S) -> S] : \A i, j \in DOMAIN o : i # j => o[i] # o[j]}

\* PresenceIssues with extra columns reported whatever strict is
PresenceIssuesAlways(missing_order, extra_order, strictly) ==
    [i \in DOMAIN missing_order |->
        Issue("missing_column", Column(missing_order[i]), PText("Present"), PText("Missing"))]
    \o
    [i \in DOMAIN extra_order |->
        Issue("extra_column", Column(extra_order[i]), PText("Absent"), PText("Present"))]

\* column presence checks; missing_order and extra_order are the iteration
\* orders of the two sets
PresenceIssues(missing_order, extra_order, strictly) ==
    [i \in DOMAIN missing_order |->
        Issue("missing_column", Column(missing_order[i]), PText("Present"), PText("Missing"))]
    \o
    (IF strictly
     THEN [i \in DOMAIN extra_order |->
             Issue("extra_column", Column(extra_order[i]), PText("Absent"), PText("Present"))]
     ELSE <<>>)

StringDtypes == {"object", "str", "string"}

\* DtypeIssues without the normalization of the string dtypes
DtypeIssuesExact(col, rules, series) ==
    IF series.dtype # rules.dtype
    THEN <<Issue("dtype", Column(col), PText(rules.dtype), PText(series.dtype))>>
    ELSE <<>>

\* data type check
DtypeIssues(col, rules, series) ==
    LET observed_dtype == series.dtype
        expected_dtype == rules.dtype
    IN  IF observed_dtype \in StringDtypes /\ expected_dtype \in StringDtypes
        THEN <<>>
        ELSE IF observed_dtype # expected_dtype
             THEN <<Issue("dtype", Column(col), PText(expected_dtype), PText(observed_dtype))>>
             ELSE <<>>

\* MissingnessIssues with >= in place of >
MissingnessIssuesGe(col, rules, series) ==
    LET frac == IsNaMean(series)
    IN  IF FloatGt(frac, rules.max_missing_frac) \/ frac = rules.max_missing_frac
        THEN <<Issue("missingness", Column(col), PNum(rules.max_missing_frac), PNum(frac))>>
        ELSE <<>>

\* missingness check
MissingnessIssues(col, rules, series) ==
    LET frac == IsNaMean(series)
    IN  IF FloatGt(frac, rules.max_missing_frac)
        THEN <<Issue("missingness", Column(col), PNum(rules.max_missing_frac), PNum(frac))>>
        ELSE <<>>

\* RangeIssues with the maximum checked only when the minimum is in range
RangeIssuesElif(col, rules, series) ==
    IF is_numeric_dtype(series)
    THEN IF rules.min_value # PyNone /\ CellLt(SeriesMin(series), rules.min_value)
         THEN <<Issue("range", Column(col), PNum(rules.min_value),
                      PNum(PyFloat(SeriesMin(series))))>>
         ELSE IF rules.max_value # PyNone /\ CellGt(SeriesMax(series), rules.max_value)
              THEN <<Issue("range", Column(col), PNum(rules.max_value),
                           PNum(PyFloat(SeriesMax(series))))>>
              ELSE <<>>
    ELSE <<>>

\* numeric range check
RangeIssues(col, rules, series) ==
    IF is_numeric_dtype(series)
    THEN (IF rules.min_value # PyNone /\ CellLt(SeriesMin(series), rules.min_value)
          THEN <<Issue("range", Column(col), PNum(rules.min_value),
                       PNum(PyFloat(SeriesMin(series))))>>
          ELSE <<>>)
         \o
         (IF rules.max_value # PyNone /\ CellGt(SeriesMax(series), rules.max_value)
          THEN <<Issue("range", Column(col), PNum(rules.max_value),
                       PNum(PyFloat(SeriesMax(series))))>>
          ELSE <<>>)
    ELSE <<>>

\* CategoryIssues over series.unique() without dropna()
CategoryIssuesWithNa(col, rules, series) ==
    IF ~rules.allowed_values.none
    THEN LET observed_vals == {AsTypeStr(c) : c \in Range(series.values)}
             invalid == observed_vals \ rules.allowed_values.vals
         IN  IF invalid # {}
             THEN <<Issue("category", Column(col), PSet(rules.allowed_values.vals),
                          PSet(observed_vals))>>
             ELSE <<>>
    ELSE <<>>

\* categorical values check
CategoryIssues(col, rules, series) ==
    IF ~rules.allowed_values.none
    THEN LET observed_vals == {AsTypeStr(c) : c \in DropNaUnique(series)}
             invalid == observed_vals \ rules.allowed_values.vals
         IN  IF invalid # {}
             THEN <<Issue("category", Column(col), PSet(rules.allowed_values.vals),
                          PSet(observed_vals))>>
             ELSE <<>>
    ELSE <<>>

\* the per-column checks with the range check made first
ColumnIssuesRangeFirst(frame, entry) ==
    IF entry.name \notin Names(frame.columns)
    THEN <<>>
    ELSE LET series == Series(frame, entry.name)
         IN  RangeIssues(entry.name, entry.rule, series)
             \o DtypeIssues(entry.name, entry.rule, series)
             \o MissingnessIssues(entry.name, entry.rule, series)
             \o CategoryIssues(entry.name, entry.rule, series)

\* the body of the per-column loop for one entry of contract.columns
ColumnIssues(frame, entry) ==
    IF entry.name \notin Names(frame.columns)
    THEN <<>>
    ELSE LET series == Series(frame, entry.name)
         IN  DtypeIssues(entry.name, entry.rule, series)
             \o MissingnessIssues(entry.name, entry.rule, series)
             \o RangeIssues(entry.name, entry.rule, series)
             \o CategoryIssues(entry.name, entry.rule, series)

\* the per-column loop over contract.columns.items(), in dict order
RECURSIVE PerColumnIssues(_, _, _)
PerColumnIssues(frame, entries, i) ==
    IF i > Len(entries) THEN <<>>
    ELSE ColumnIssues(frame, entries[i]) \o PerColumnIssues(frame, entries, i + 1)

NoResult == ValidationResult(FALSE, <<>>)

\* validate_contract with ok taken from the presence checks alone
validate_contract_presence_ok(frame, c, strictly, missing_order, extra_order) ==
    IF frame.kind # "DataFrame" \/ c.kind # "Contract"
    THEN [error |-> "AttributeError", result |-> NoResult]
    ELSE LET presence == PresenceIssues(missing_order, extra_order, strictly)
             issues == presence \o PerColumnIssues(frame, c.columns, 1)
         IN  [error |-> "none", result |-> ValidationResult(Len(presence) = 0, issues)]

validate_contract(frame, c, strictly, missing_order, extra_order) ==
    IF frame.kind # "DataFrame" \/ c.kind # "Contract"
    THEN [error |-> "AttributeError", result |-> NoResult]
    ELSE LET issues == PresenceIssues(missing_order, extra_order, strictly)
                       \o PerColumnIssues(frame, c.columns, 1)
         IN  [error |-> "none", result |-> ValidationResult(Len(issues) = 0, issues)]


(***************************************************************************)
(* compare_contracts                                                       *)
(***************************************************************************)
\* a != under which None differs from None as NaN does from NaN
PyNeNoneDiffers(a, b) == a.k \in {"nan", "none"} \/ b.k \in {"nan", "none"} \/ a # b

\* Python's != on floats and None: NaN differs from everything, itself included
PyNe(a, b) == a.k = "nan" \/ b.k = "nan" \/ a # b

\* isinstance(x, (int, float))
IsNumber(x) == x.k \in {"num", "nan"}

\* the checks of one rule without the comparison of min_value and max_value
RuleErrorNoRange(rule) ==
    IF rule.kind # "ColumnRule" THEN "TypeError"
    ELSE IF ~IsNumber(rule.max_missing_frac) THEN "ValueError"
    ELSE IF FloatLt(rule.max_missing_frac, F(0, 1)) \/ FloatGt(rule.max_missing_frac, F(1, 1))
         THEN "ValueError"
    ELSE "none"

\* the checks of one rule: the error they raise, "none" when they pass
RuleError(rule) ==
    IF rule.kind # "ColumnRule" THEN "TypeError"
    ELSE IF ~IsNumber(rule.max_missing_frac) THEN "ValueError"
    ELSE IF FloatLt(rule.max_missing_frac, F(0, 1)) \/ FloatGt(rule.max_missing_frac, F(1, 1))
         THEN "ValueError"
    ELSE IF /\ rule.min_value # PyNone /\ rule.max_value # PyNone
            /\ FloatGt(rule.min_value, rule.max_value)
         THEN "ValueError"
    ELSE "none"

\* the nested function validate_contract(contract): the columns are checked
\* in dict order and the first failing check raises
RECURSIVE check_contract(_, _)
check_contract(entries, i) ==
    IF i > Len(entries) THEN "none"
    ELSE IF RuleError(entries[i].rule) # "none" THEN RuleError(entries[i].rule)
    ELSE check_contract(entries, i + 1)

\* contract.columns[column]
RuleAt(c, column) ==
    c.columns[CHOOSE i \in DOMAIN c.columns : c.columns[i].name = column].rule

\* columns_a & columns_b
Shared(a, b) == Names(a.columns) \cap Names(b.columns)

\* the set difference taken the other way round
added_columns_of_a(a, b) == Names(a.columns) \ Names(b.columns)

added_columns(a, b) == Names(b.columns) \ Names(a.columns)

removed_columns(a, b) == Names(a.columns) \ Names(b.columns)

dtype_changes(a, b) ==
    [column \in {c \in Shared(a, b) : RuleAt(a, c).dtype # RuleAt(b, c).dtype} |->
        <<RuleAt(a, column).dtype, RuleAt(b, column).dtype>>]

\* bounds compared only where both contracts define them
range_changes_both_set(a, b) ==
    {column \in Shared(a, b) :
        /\ RuleAt(a, column).dtype = RuleAt(b, column).dtype
        /\ \/ /\ RuleAt(a, column).min_value # PyNone /\ RuleAt(b, column).min_value # PyNone
              /\ PyNe(RuleAt(a, column).min_value, RuleAt(b, column).min_value)
           \/ /\ RuleAt(a, column).max_value # PyNone /\ RuleAt(b, column).max_value # PyNone
              /\ PyNe(RuleAt(a, column).max_value, RuleAt(b, column).max_value)}

range_changes(a, b) ==
    {column \in Shared(a, b) :
        /\ RuleAt(a, column).dtype = RuleAt(b, column).dtype
        /\ \/ PyNe(RuleAt(a, column).min_value, RuleAt(b, column).min_value)
           \/ PyNe(RuleAt(a, column).max_value, RuleAt(b, column).max_value)}

category_changes(a, b) ==
    {column \in Shared(a, b) :
        /\ RuleAt(a, column).dtype = RuleAt(b, column).dtype
        /\ RuleAt(a, column).allowed_values # RuleAt(b, column).allowed_values}

\* the missingness comparison nested under the test that the dtypes are equal
missingness_changes_same_dtype(a, b) ==
    [column \in {c \in Shared(a, b) :
                    /\ RuleAt(a, c).dtype = RuleAt(b, c).dtype
                    /\ PyNe(RuleAt(a, c).max_missing_frac, RuleAt(b, c).max_missing_frac)} |->
        <<RuleAt(a, column).max_missing_frac, RuleAt(b, column).max_missing_frac>>]

missingness_changes(a, b) ==
    [column \in {c \in Shared(a, b) :
                    PyNe(RuleAt(a, c).max_missing_frac, RuleAt(b, c).max_missing_frac)} |->
        <<RuleAt(a, column).max_missing_frac, RuleAt(b, column).max_missing_frac>>]

DriftReport(added, removed, dtypes, ranges, categories, missingness) ==
    [added_columns |-> added, removed_columns |-> removed, dtype_changes |-> dtypes,
     range_changes |-> ranges, category_changes |-> categories,
     missingness_changes |-> missingness]

NoReport == DriftReport({}, {}, <<>>, {}, {}, <<>>)

\* a has_drift that looks at the five fields other than missingness_changes
has_drift_five(r) ==
    \/ r.added_columns # {} \/ r.removed_columns # {}
    \/ DOMAIN r.dtype_changes # {}
    \/ r.range_changes # {} \/ r.category_changes # {}

\* the property DriftReport.has_drift
has_drift(r) ==
    \/ r.added_columns # {} \/ r.removed_columns # {}
    \/ DOMAIN r.dtype_changes # {}
    \/ r.range_changes # {} \/ r.category_changes # {}
    \/ DOMAIN r.missingness_changes # {}

compare_contracts(a, b) ==
    IF a.kind # "Contract" \/ b.kind # "Contract"
    THEN [error |-> "TypeError", report |-> NoReport]
    ELSE IF check_contract(a.columns, 1) # "none"
    THEN [error |-> check_contract(a.columns, 1), report |-> NoReport]
    ELSE IF check_contract(b.columns, 1) # "none"
    THEN [error |-> check_contract(b.columns, 1), report |-> NoReport]
    ELSE [error |-> "none",
          report |-> DriftReport(added_columns(a, b), removed_columns(a, b),
                                 dtype_changes(a, b), range_changes(a, b),
                                 category_changes(a, b), missingness_changes(a, b))]


(***************************************************************************)
(* summarize_violations                                                    *)
(***************************************************************************)
\* the values given as top_k: an int, a float, a str
PyInt(n) == [t |-> "int", v |-> F(n, 1)]
PyReal(f) == [t |-> "float", v |-> f]
PyString == [t |-> "str", v |-> PyText]

\* the values given as weights: None, a dict in insertion order, and values
\* that are neither
WeightsNone == [t |-> "NoneType", entries |-> <<>>]
WeightsDict(entries) == [t |-> "dict", entries |-> entries]
NotADict(t) == [t |-> t, entries |-> <<>>]

Entry(kind, weight) == [kind |-> kind, weight |-> weight]

\* DEFAULT_WEIGHTS with dtype above extra_column
DEFAULT_WEIGHTS_DTYPE_FIRST ==
    <<Entry("missing_column", F(10, 1)), Entry("extra_column", F(8, 1)),
      Entry("dtype", F(9, 1)), Entry("range", F(5, 1)),
      Entry("category", F(5, 1)), Entry("missingness", F(3, 1))>>

DEFAULT_WEIGHTS ==
    <<Entry("missing_column", F(10, 1)), Entry("extra_column", F(8, 1)),
      Entry("dtype", F(7, 1)), Entry("range", F(5, 1)),
      Entry("category", F(5, 1)), Entry("missingness", F(3, 1))>>

\* the error of the first weight that is not a positive number
RECURSIVE WeightError(_, _)
WeightError(entries, i) ==
    IF i > Len(entries) THEN [error |-> "none", message |-> ""]
    ELSE IF ~IsNumber(entries[i].weight)
    THEN [error |-> "ValueError",
          message |-> "Weight for '" \o entries[i].kind \o "' must be numeric"]
    ELSE IF ~FloatGt(entries[i].weight, F(0, 1))
    THEN [error |-> "ValueError",
          message |-> "Weight for '" \o entries[i].kind \o "' must be positive"]
    ELSE WeightError(entries, i + 1)

\* the input validation: the error of the first check that fails
ArgumentError(res, k, w) ==
    IF res.kind # "ValidationResult"
    THEN [error |-> "TypeError", message |-> "result must be a ValidationResult instance"]
    ELSE IF k.t # "int"
    THEN [error |-> "TypeError", message |-> "top_k must be an integer"]
    ELSE IF ~FloatGt(k.v, F(0, 1))
    THEN [error |-> "ValueError", message |-> "top_k must be a positive integer"]
    ELSE IF w.t \notin {"NoneType", "dict"}
    THEN [error |-> "TypeError", message |-> "weights must be a dict or None"]
    ELSE WeightError(w.entries, 1)

\* custom weights laid over the defaults
weights_to_use_merged(w) ==
    IF w.t = "NoneType" THEN DEFAULT_WEIGHTS
    ELSE w.entries
         \o SelectSeq(DEFAULT_WEIGHTS,
                      LAMBDA e : \A i \in DOMAIN w.entries : w.entries[i].kind # e.kind)

weights_to_use(w) == IF w.t = "NoneType" THEN DEFAULT_WEIGHTS ELSE w.entries

\* weights_to_use.get(kind, 1)
Weight(kind, table) ==
    IF \E i \in DOMAIN table : table[i].kind = kind
    THEN table[CHOOSE i \in DOMAIN table : table[i].kind = kind].weight
    ELSE F(1, 1)

\* the strings that are compared, in the order of Python's < on str
Lexicon ==
    <<"", "age", "category", "city", "custom", "dtype", "extra_column",
      "missing_column", "missingness", "range">>

StrLt(a, b) ==
    (CHOOSE i \in DOMAIN Lexicon : Lexicon[i] = a) < (CHOOSE i \in DOMAIN Lexicon : Lexicon[i] = b)

\* (-weight, column_sort, issue.kind)
sort_key(issue, table) ==
    [neg_weight |-> F(0 - Weight(issue.kind, table).num, Weight(issue.kind, table).den),
     has_column |-> ~issue.column.none,
     column |-> IF issue.column.none THEN "" ELSE issue.column.name,
     kind |-> issue.kind]

\* a < on the keys under which an issue without a column comes last
KeyLtNoneLast(x, y) ==
    \/ FloatLt(x.neg_weight, y.neg_weight)
    \/ /\ x.neg_weight = y.neg_weight
       /\ \/ (x.has_column /\ ~y.has_column)
          \/ (x.has_column = y.has_column /\ StrLt(x.column, y.column))
          \/ (x.has_column = y.has_column /\ x.column = y.column /\ StrLt(x.kind, y.kind))

\* Python's < on the key tuples
KeyLt(x, y) ==
    \/ FloatLt(x.neg_weight, y.neg_weight)
    \/ /\ x.neg_weight = y.neg_weight
       /\ \/ (~x.has_column /\ y.has_column)
          \/ (x.has_column = y.has_column /\ StrLt(x.column, y.column))
          \/ (x.has_column = y.has_column /\ x.column = y.column /\ StrLt(x.kind, y.kind))

\* sorted(result.issues, key=sort_key): a new list, ascending by key, issues
\* with equal keys in their original order
RECURSIVE sorted(_, _)
sorted(issues, table) ==
    IF issues = <<>> THEN <<>>
    ELSE LET n == Len(issues)
             rest == sorted(SubSeq(issues, 1, n - 1), table)
             x == issues[n]
             p == Cardinality({i \in DOMAIN rest :
                                  ~KeyLt(sort_key(x, table), sort_key(rest[i], table))})
         IN  SubSeq(rest, 1, p) \o <<x>> \o SubSeq(rest, p + 1, Len(rest))

\* a slice that stops one entry early
top_issues_short(sorted_issues, k) ==
    SubSeq(sorted_issues, 1, IF k - 1 < Len(sorted_issues) THEN k - 1 ELSE Len(sorted_issues))

\* sorted_issues[:top_k]
top_issues(sorted_issues, k) ==
    SubSeq(sorted_issues, 1, IF k < Len(sorted_issues) THEN k ELSE Len(sorted_issues))

\* a tally that records the kinds that are present, once each
counts_by_kind_presence(issues) ==
    [kind \in {issues[i].kind : i \in DOMAIN issues} |-> 1]

\* dict(Counter(issue.kind for issue in result.issues))
counts_by_kind(issues) ==
    [kind \in {issues[i].kind : i \in DOMAIN issues} |->
        Cardinality({i \in DOMAIN issues : issues[i].kind = kind})]

NoSummary == Summary(FALSE, <<>>, <<>>)

\* result.issues after a sort made in place, as result.issues.sort(key=sort_key)
issues_after_sort_in_place(issues, table) == sorted(issues, table)

\* result.issues after the call: sorted() builds a new list and nothing is
\* assigned to result.issues
issues_after_call(issues, table) == issues

\* summarize_violations with the empty result returned before the arguments
\* are looked at
summarize_violations_empty_first(res, k, w) ==
    IF res.kind = "ValidationResult" /\ res.issues = <<>>
    THEN [error |-> "none", message |-> "", summary |-> Summary(res.ok, <<>>, <<>>),
          issues |-> res.issues]
    ELSE IF ArgumentError(res, k, w).error # "none"
    THEN [error |-> ArgumentError(res, k, w).error,
          message |-> ArgumentError(res, k, w).message, summary |-> NoSummary,
          issues |-> res.issues]
    ELSE LET top == top_issues(sorted(res.issues, weights_to_use(w)), k.v.num)
         IN  [error |-> "none", message |-> "",
              summary |-> Summary(res.ok, top, counts_by_kind(res.issues)),
              issues |-> issues_after_call(res.issues, weights_to_use(w))]

summarize_violations(res, k, w) ==
    IF ArgumentError(res, k, w).error # "none"
    THEN [error |-> ArgumentError(res, k, w).error,
          message |-> ArgumentError(res, k, w).message, summary |-> NoSummary,
          issues |-> res.issues]
    ELSE IF res.issues = <<>>
    THEN [error |-> "none", message |-> "", summary |-> Summary(res.ok, <<>>, <<>>),
          issues |-> res.issues]
    ELSE LET top == top_issues(sorted(res.issues, weights_to_use(w)), k.v.num)
         IN  [error |-> "none", message |-> "",
              summary |-> Summary(res.ok, top, counts_by_kind(res.issues)),
              issues |-> issues_after_call(res.issues, weights_to_use(w))]

(***************************************************************************)
(* The arguments the calls are made with.                                  *)
(***************************************************************************)
ColNames == {"age", "city"}

\* two distinct column names, in order
NamePairs == {p \in ColNames \X ColNames : p[1] # p[2]}

DTypes == {"int64", "float64", "bool", "object", "category", "string"}

\* the cells a column of each dtype is filled from
Alphabet(dtype) ==
    CASE dtype = "int64" -> {IntCell(0), IntCell(100), IntCell(150)}
      [] dtype = "float64" -> {NaNCell, FloatCell(0), FloatCell(150)}
      [] dtype = "bool" -> {BoolCell(TRUE), BoolCell(FALSE)}
      [] dtype = "object" -> {NoneCell, StrCell("Toronto"), IntCell(0)}
      [] dtype = "category" -> {NaNCell, StrCell("Toronto"), StrCell("Seattle")}
      [] OTHER -> {NoneCell, StrCell("Toronto"), StrCell("Seattle")}

\* the columns called name with n rows
SeriesSet(name, n) ==
    UNION {{[name |-> name, dtype |-> d, values |-> v] : v \in [1..n -> Alphabet(d)]} :
           d \in DTypes}

\* DataFrames of one column
TallFrames ==
    UNION {{DataFrame(<<s>>) : s \in SeriesSet(name, n)} :
           name \in ColNames, n \in 0..MaxRows}

\* DataFrames of two columns, in both column orders, of at most m rows
WideFramesUpTo(m) ==
    UNION {{DataFrame(<<s, t>>) : s \in SeriesSet(p[1], n), t \in SeriesSet(p[2], n)} :
           p \in NamePairs, n \in 0..m}

WideFrames == WideFramesUpTo(MaxWideRows)

\* the DataFrame of the docstring and test examples: a column [1, 2, 3]
ScenarioFrames ==
    {DataFrame(<<[name |-> "num", dtype |-> "int64",
                  values |-> <<IntCell(1), IntCell(2), IntCell(3)>>]>>)}

Frames == <<{DataFrame(<<>>)}, TallFrames, WideFrames, ScenarioFrames>>

NonFrames == {NotAFrame("None"), NotAFrame("str")}

NonContracts == {NotAContract("None"), NotAContract("dict")}

\* the rules a single column is validated against
Rules ==
    {ColumnRule(d, m, lo, hi, av) :
        d \in DTypes \cup {"str"},
        m \in {F(0, 1), F(1, 2)},
        lo \in {PyNone, F(0, 1), F(100, 1)},
        hi \in {PyNone, F(0, 1), F(100, 1)},
        av \in {NoValues, Values({"Vancouver", "Toronto"}),
                Values({"0", "0.0", "True", "Seattle"})}}

\* one column against one rule of the same name
ColumnCases ==
    {[df |-> DataFrame(<<s>>), contract |-> Contract(<<[name |-> "age", rule |-> r]>>)] :
        s \in UNION {SeriesSet("age", n) : n \in 0..MaxWideRows}, r \in Rules}

\* the rules of the contracts with several columns
SchemaRules ==
    {ColumnRule("int64", F(0, 1), F(0, 1), F(100, 1), NoValues),
     ColumnRule("object", F(0, 1), PyNone, PyNone, Values({"Vancouver", "Toronto"})),
     ColumnRule("float64", F(0, 1), F(150, 1), F(0, 1), Values({"Toronto"}))}

SchemaContracts ==
    {Contract(<<>>)}
    \cup {Contract(<<[name |-> a, rule |-> r]>>) : a \in ColNames, r \in SchemaRules}
    \cup UNION {{Contract(<<[name |-> p[1], rule |-> r], [name |-> p[2], rule |-> q]>>) :
                    r \in SchemaRules, q \in SchemaRules} :
                p \in NamePairs}

SchemaFrames ==
    {DataFrame(<<>>)}
    \cup UNION {{DataFrame(<<s>>) : s \in SeriesSet(name, n)} : name \in ColNames, n \in 0..1}
    \cup WideFramesUpTo(1)

\* DataFrames and contracts whose column sets and column orders differ
SchemaCases == {[df |-> f, contract |-> c] : f \in SchemaFrames, c \in SchemaContracts}

\* calls with an argument of the wrong type
MalformedCases ==
    {[df |-> f, contract |-> c] : f \in NonFrames, c \in {Contract(<<>>)} \cup NonContracts}
    \cup {[df |-> f, contract |-> c] : f \in {DataFrame(<<>>)}, c \in NonContracts}

ValidateInputs == <<ColumnCases, SchemaCases, MalformedCases>>

\* the rules of the two contracts of one shared column
CompareRules ==
    {ColumnRule(d, m, lo, hi, av) :
        d \in {"int64", "float64"},
        m \in {F(0, 1), F(1, 2), F(3, 2)},
        lo \in {PyNone, F(0, 1), F(100, 1)},
        hi \in {PyNone, F(0, 1), F(100, 1)},
        av \in {NoValues, Values({}), Values({"Toronto"})}}

\* two contracts of the one column age
RuleCases ==
    {[a |-> Contract(<<[name |-> "age", rule |-> r]>>),
      b |-> Contract(<<[name |-> "age", rule |-> q]>>)] :
        r \in CompareRules, q \in CompareRules}

\* the rules, and the values that are not valid rules, of the contracts with
\* several columns
DriftRules ==
    {ColumnRule("int64", F(0, 1), F(0, 1), F(100, 1), NoValues),
     ColumnRule("float64", F(1, 2), F(0, 1), F(150, 1), NoValues),
     ColumnRule("int64", F(0, 1), PyNone, PyNone, Values({"Toronto"})),
     NotARule("str"),
     ColumnRule("int64", PyText, PyNone, PyNone, NoValues),
     ColumnRule("int64", F(0 - 1, 2), PyNone, PyNone, NoValues),
     ColumnRule("int64", F(0, 1), F(100, 1), F(0, 1), NoValues)}

DriftContracts ==
    {Contract(<<>>)}
    \cup {Contract(<<[name |-> a, rule |-> r]>>) : a \in ColNames, r \in DriftRules}
    \cup UNION {{Contract(<<[name |-> p[1], rule |-> r], [name |-> p[2], rule |-> q]>>) :
                    r \in DriftRules, q \in DriftRules} :
                p \in NamePairs}

\* contracts whose column sets differ, and arguments that are not contracts
DriftCases ==
    {[a |-> x, b |-> y] :
        x \in DriftContracts \cup NonContracts, y \in DriftContracts \cup NonContracts}

CompareInputs == <<RuleCases, DriftCases>>

\* the issues that are summarized: kinds of the default table and one outside
\* it, with and without a column, and two that differ in nothing the sort key
\* looks at
IssuePool ==
    {Issue("missing_column", Column("city"), PText("Present"), PText("Missing")),
     Issue("dtype", Column("age"), PText("int64"), PText("float64")),
     Issue("range", Column("age"), PNum(F(0, 1)), PNum(F(0 - 1, 1))),
     Issue("range", Column("age"), PNum(F(100, 1)), PNum(F(150, 1))),
     Issue("category", NoColumn, PSet({"Toronto"}), PSet({"Seattle"})),
     Issue("custom", Column("age"), PText(""), PText(""))}

RECURSIVE IssueLists(_)
IssueLists(n) ==
    IF n = 0 THEN {<<>>}
    ELSE IssueLists(n - 1)
         \cup {Append(l, x) : l \in {m \in IssueLists(n - 1) : Len(m) = n - 1}, x \in IssuePool}

\* the custom weights of the calls that return
WeightTables ==
    {WeightsNone,
     WeightsDict(<<Entry("dtype", F(10, 1))>>),
     WeightsDict(<<Entry("range", F(20, 1)), Entry("dtype", F(5, 1))>>),
     WeightsDict(<<Entry("dtype", F(5, 1)), Entry("range", F(5, 1)), Entry("category", F(5, 1))>>),
     WeightsDict(<<Entry("dtype", F(21, 2)), Entry("range", F(16, 5))>>)}

RankCases ==
    {[result |-> ValidationResult(l = <<>>, l), top_k |-> PyInt(k), weights |-> w] :
        l \in IssueLists(MaxIssues), k \in 1..(MaxIssues + 1), w \in WeightTables}

\* results whose ok is not what the issue list suggests
OkCases ==
    {[result |-> ValidationResult(l # <<>>, l), top_k |-> PyInt(k), weights |-> w] :
        l \in IssueLists(1), k \in {1, 5}, w \in WeightTables}

\* one issue of each kind of the default table, in every order, the range
\* and category issues on every pair of columns
ScenarioIssues(range_column, category_column) ==
    {Issue("missing_column", Column("age"), PText("Present"), PText("Missing")),
     Issue("extra_column", Column("city"), PText("Not present"), PText("Present")),
     Issue("dtype", Column("age"), PText("int64"), PText("float64")),
     Issue("range", range_column, PNum(F(100, 1)), PNum(F(150, 1))),
     Issue("category", category_column, PSet({"Toronto"}), PSet({"Seattle"})),
     Issue("missingness", Column("city"), PNum(F(0, 1)), PNum(F(1, 2)))}

ScenarioCases ==
    UNION {{[result |-> ValidationResult(FALSE, o), top_k |-> PyInt(6), weights |-> WeightsNone] :
                o \in Orders(ScenarioIssues(rc, cc))} :
           rc \in {NoColumn, Column("age"), Column("city")},
           cc \in {NoColumn, Column("age"), Column("city")}}

\* arguments that the input validation rejects, alone and together
InvalidCases ==
    {[result |-> r, top_k |-> k, weights |-> w] :
        r \in {ValidationResult(TRUE, <<>>),
               ValidationResult(FALSE, <<Issue("dtype", Column("age"), PText("int64"), PText("float64"))>>),
               NotAResult("str"), NotAResult("NoneType")},
        k \in {PyInt(1), PyInt(0), PyInt(0 - 1), PyReal(F(7, 2)), PyString},
        w \in {WeightsNone, WeightsDict(<<Entry("dtype", F(10, 1))>>),
               NotADict("list"), NotADict("str"),
               WeightsDict(<<Entry("dtype", F(0 - 5, 1))>>),
               WeightsDict(<<Entry("dtype", F(0, 1))>>),
               WeightsDict(<<Entry("dtype", PyText)>>),
               WeightsDict(<<Entry("dtype", F(10, 1)), Entry("range", F(0 - 5, 1))>>),
               WeightsDict(<<Entry("dtype", PyText), Entry("range", F(0 - 5, 1))>>),
               WeightsDict(<<Entry("range", F(0 - 5, 1)), Entry("dtype", PyText)>>)}}

\* the DataFrames whose inferred contract is compared with itself
InferCompareFrames == <<{DataFrame(<<>>)}, TallFrames, WideFramesUpTo(1), ScenarioFrames>>

SummarizeInputs == <<RankCases, OkCases, ScenarioCases, InvalidCases>>

(***************************************************************************)
(* The calls.                                                              *)
(***************************************************************************)
Init ==
    /\ op = "idle"
    /\ df = DataFrame(<<>>)
    /\ contract = Contract(<<>>)
    /\ strict = TRUE
    /\ result = NoResult
    /\ error = "none"
    /\ contract_b = Contract(<<>>)
    /\ report = NoReport
    /\ drift = FALSE
    /\ top_k = PyInt(5)
    /\ weights = WeightsNone
    /\ summary = NoSummary
    /\ message = ""
    /\ issues_after = <<>>

\* contract = infer_contract(df)
InferContract ==
    /\ op = "idle"
    /\ \E n \in 1..(Len(Frames) + 1) : \E f \in (Frames \o <<NonFrames>>)[n] :
          \E r \in {infer_contract(f)} :
              /\ df' = f
              /\ contract' = r.contract
              /\ error' = r.error
    /\ op' = "infer_contract"
    /\ UNCHANGED <<strict, result, contract_b, report, drift, top_k, weights, summary, message, issues_after>>

\* result = validate_contract(df, contract, strict)
ValidateContract ==
    /\ op = "idle"
    /\ \E n \in DOMAIN ValidateInputs : \E in \in ValidateInputs[n], s \in BOOLEAN :
          \E mo \in Orders(missing_columns(in.df, in.contract)),
             eo \in Orders(extra_columns(in.df, in.contract)) :
             \E r \in {validate_contract(in.df, in.contract, s, mo, eo)} :
                 /\ df' = in.df
                 /\ contract' = in.contract
                 /\ strict' = s
                 /\ result' = r.result
                 /\ error' = r.error
    /\ op' = "validate_contract"
    /\ UNCHANGED <<contract_b, report, drift, top_k, weights, summary, message, issues_after>>

\* result = validate_contract(df, infer_contract(df), strict)
InferThenValidate ==
    /\ op = "idle"
    /\ \E n \in DOMAIN Frames : \E f \in Frames[n], s \in BOOLEAN :
          \E c \in {infer_contract(f).contract} :
              \E mo \in Orders(missing_columns(f, c)), eo \in Orders(extra_columns(f, c)) :
                 \E r \in {validate_contract(f, c, s, mo, eo)} :
                     /\ df' = f
                     /\ contract' = c
                     /\ strict' = s
                     /\ result' = r.result
                     /\ error' = r.error
    /\ op' = "round_trip"
    /\ UNCHANGED <<contract_b, report, drift, top_k, weights, summary, message, issues_after>>

\* report = compare_contracts(contract, contract_b), then report.has_drift
CompareContracts ==
    /\ op = "idle"
    /\ \E n \in DOMAIN CompareInputs : \E in \in CompareInputs[n] :
          \E r \in {compare_contracts(in.a, in.b)} :
              /\ contract' = in.a
              /\ contract_b' = in.b
              /\ report' = r.report
              /\ error' = r.error
              /\ drift' = (r.error = "none" /\ has_drift(r.report))
    /\ op' = "compare_contracts"
    /\ UNCHANGED <<df, strict, result, top_k, weights, summary, message, issues_after>>

\* summary = summarize_violations(result, top_k=top_k, weights=weights)
SummarizeViolations ==
    /\ op = "idle"
    /\ \E n \in DOMAIN SummarizeInputs : \E in \in SummarizeInputs[n] :
          \E r \in {summarize_violations(in.result, in.top_k, in.weights)} :
              /\ result' = in.result
              /\ top_k' = in.top_k
              /\ weights' = in.weights
              /\ summary' = r.summary
              /\ error' = r.error
              /\ message' = r.message
              /\ issues_after' = r.issues
    /\ op' = "summarize_violations"
    /\ UNCHANGED <<df, contract, strict, contract_b, report, drift>>

\* c = infer_contract(df), then report = compare_contracts(c, c)
InferThenCompare ==
    /\ op = "idle"
    /\ \E n \in DOMAIN InferCompareFrames : \E f \in InferCompareFrames[n] :
          \E c \in {infer_contract(f).contract} :
              \E r \in {compare_contracts(c, c)} :
                  /\ df' = f
                  /\ contract' = c
                  /\ contract_b' = c
                  /\ report' = r.report
                  /\ error' = r.error
                  /\ drift' = (r.error = "none" /\ has_drift(r.report))
    /\ op' = "infer_compare"
    /\ UNCHANGED <<strict, result, top_k, weights, summary, message, issues_after>>

\* the call is over; its values are dropped
Return ==
    /\ op # "idle"
    /\ op' = "idle"
    /\ df' = DataFrame(<<>>)
    /\ contract' = Contract(<<>>)
    /\ strict' = TRUE
    /\ result' = NoResult
    /\ error' = "none"
    /\ contract_b' = Contract(<<>>)
    /\ report' = NoReport
    /\ drift' = FALSE
    /\ top_k' = PyInt(5)
    /\ weights' = WeightsNone
    /\ summary' = NoSummary
    /\ message' = ""
    /\ issues_after' = <<>>

Next ==
    \/ InferContract \/ ValidateContract \/ InferThenValidate \/ CompareContracts
    \/ SummarizeViolations \/ InferThenCompare \/ Return

Spec == Init /\ [][Next]_vars

(***************************************************************************)
(* What a call was made with, read back from the state.                    *)
(***************************************************************************)
WellFormed == df.kind = "DataFrame" /\ contract.kind = "Contract"

Inferred == op = "infer_contract" /\ error = "none"

\* the contract columns that df has too
Checked == {i \in DOMAIN contract.columns : contract.columns[i].name \in Names(df.columns)}

\* the number of issues of a kind reported for a column
CountIssues(kind, col) ==
    Cardinality({i \in DOMAIN result.issues :
        result.issues[i].kind = kind /\ result.issues[i].column = Column(col)})

KindCount(kind) ==
    Cardinality({i \in DOMAIN result.issues : result.issues[i].kind = kind})

\* the numbers held by the non-missing cells of a column
Numbers(s) == {s.values[i].n : i \in {j \in DOMAIN s.values : ~IsNa(s.values[j])}}

\* some value of the column lies below, above the bound
BelowMin(s, rule) ==
    /\ rule.min_value.k = "num"
    /\ \E v \in Numbers(s) : v * rule.min_value.den < rule.min_value.num

AboveMax(s, rule) ==
    /\ rule.max_value.k = "num"
    /\ \E v \in Numbers(s) : v * rule.max_value.den > rule.max_value.num

\* more of the column is missing than the rule tolerates
TooManyMissing(s, rule) ==
    /\ Len(s.values) > 0
    /\ rule.max_missing_frac.k = "num"
    /\ NaCount(s) * rule.max_missing_frac.den > rule.max_missing_frac.num * Len(s.values)

\* object, str and string name one dtype
SameDtype(a, b) == a = b \/ ({a, b} \subseteq {"object", "str", "string"})

\* a value of the column, as a string, is outside the allowed values
Disallowed(s, rule) ==
    /\ ~rule.allowed_values.none
    /\ \E i \in DOMAIN s.values :
          ~IsNa(s.values[i]) /\ AsTypeStr(s.values[i]) \notin rule.allowed_values.vals

NumericDtypes == {"int64", "float64", "bool"}

\* the data violates the contract
HasViolation ==
    \/ missing_columns(df, contract) # {}
    \/ strict /\ extra_columns(df, contract) # {}
    \/ \E i \in Checked :
          LET e == contract.columns[i]
              s == Series(df, e.name)
          IN  \/ ~SameDtype(s.dtype, e.rule.dtype)
              \/ TooManyMissing(s, e.rule)
              \/ s.dtype \in NumericDtypes /\ (BelowMin(s, e.rule) \/ AboveMax(s, e.rule))
              \/ Disallowed(s, e.rule)

(***************************************************************************)
(* Properties                                                              *)
(***************************************************************************)

\* C1: round trip: validating a DataFrame against the contract inferred from
\* it, with strict = True, returns ok = True and no issues, whatever the
\* dtypes, the missing values and the number of rows of its columns.
RoundTripOk ==
    op = "round_trip" /\ strict => error = "none" /\ result.ok /\ result.issues = <<>>

\* the round trip of a DataFrame of two columns, one of them entirely missing
\* and the other with a missing and a present value
RoundTripWitness ==
    /\ op = "round_trip" /\ strict /\ result.ok
    /\ Len(df.columns) = 2
    /\ \E i, j \in DOMAIN df.columns :
          /\ Len(df.columns[i].values) = 2
          /\ NaCount(df.columns[i]) = 2
          /\ df.columns[j].dtype = "float64"
          /\ NaCount(df.columns[j]) = 1

\* C2: infer_contract never gives a column both numeric bounds and allowed
\* values, boolean columns included.
NeverBoundsAndAllowed ==
    Inferred =>
        \A i \in DOMAIN contract.columns :
            LET r == contract.columns[i].rule
            IN  ~((r.min_value # PyNone \/ r.max_value # PyNone) /\ ~r.allowed_values.none)

\* C3: for a DataFrame with columns and no rows, infer_contract sets
\* max_missing_frac of every column to 0.0.
ZeroRowsMissingFracZero ==
    Inferred =>
        \A i \in DOMAIN contract.columns :
            Len(df.columns[i].values) = 0 =>
                contract.columns[i].rule.max_missing_frac = F(0, 1)

\* C4: with at least one row, max_missing_frac is missing_count / total_count,
\* a value in [0, 1]; 1.0 for an entirely missing column and 0.5 for 2 missing
\* out of 4.
MissingFracIsRatio ==
    Inferred =>
        \A i \in DOMAIN contract.columns :
            LET s == df.columns[i]
                m == contract.columns[i].rule.max_missing_frac
            IN  Len(s.values) > 0 =>
                    /\ m.k = "num"
                    /\ m.num * Len(s.values) = NaCount(s) * m.den
                    /\ 0 <= m.num /\ m.num <= m.den
                    /\ (NaCount(s) = Len(s.values) => m = F(1, 1))
                    /\ (Len(s.values) = 4 /\ NaCount(s) = 2 => m = F(1, 2))

\* a column with 2 missing entries out of 4
MissingFracWitness ==
    /\ Inferred
    /\ \E i \in DOMAIN contract.columns :
          /\ Len(df.columns[i].values) = 4
          /\ NaCount(df.columns[i]) = 2
          /\ contract.columns[i].rule.max_missing_frac = F(1, 2)

\* C5: validate_contract returns ok = True exactly when the issue list is
\* empty; every violation of the contract by the data (missing or extra
\* column, dtype, missingness, range, category) is returned as an issue and
\* nothing is raised.
ViolationsAreIssues ==
    op = "validate_contract" /\ WellFormed =>
        /\ error = "none"
        /\ result.ok <=> result.issues = <<>>
        /\ HasViolation <=> result.issues # <<>>

\* a call whose data violates the contract: it returns issues and ok = False
ViolationsWitness ==
    /\ op = "validate_contract" /\ WellFormed
    /\ HasViolation
    /\ error = "none" /\ ~result.ok
    /\ KindCount("range") > 0 /\ KindCount("category") > 0 /\ KindCount("dtype") > 0

\* C6: presence checks: one missing_column issue for each contract column the
\* dataset lacks, whatever strict is; one extra_column issue for each dataset
\* column the contract lacks when strict is true, and no extra_column issue
\* when strict is false.
PresenceChecks ==
    op = "validate_contract" /\ WellFormed =>
        /\ \A col \in ColNames :
              CountIssues("missing_column", col) =
                  (IF col \in missing_columns(df, contract) THEN 1 ELSE 0)
        /\ KindCount("missing_column") = Cardinality(missing_columns(df, contract))
        /\ strict =>
              /\ \A col \in ColNames :
                    CountIssues("extra_column", col) =
                        (IF col \in extra_columns(df, contract) THEN 1 ELSE 0)
              /\ KindCount("extra_column") = Cardinality(extra_columns(df, contract))
        /\ ~strict => KindCount("extra_column") = 0

\* a non-strict call with a missing and an extra column: one missing_column
\* issue and no extra_column issue
PresenceWitness ==
    /\ op = "validate_contract" /\ WellFormed /\ ~strict
    /\ missing_columns(df, contract) = {"age"}
    /\ extra_columns(df, contract) = {"city"}
    /\ CountIssues("missing_column", "age") = 1
    /\ KindCount("extra_column") = 0

\* C7: validate_contract raises TypeError when the dataset is not a DataFrame
\* or the contract is not a Contract.
MalformedRaisesTypeError ==
    op = "validate_contract" /\ ~WellFormed => error = "TypeError"

\* C8: dtype check: a contract column present in the dataset gets one dtype
\* issue, carrying the observed and the expected dtype, iff the two dtypes
\* differ once object, str and string are taken as one; otherwise none.
DtypeCheck ==
    op = "validate_contract" /\ WellFormed =>
        \A i \in Checked :
            LET e == contract.columns[i]
                s == Series(df, e.name)
                found == {k \in DOMAIN result.issues :
                             result.issues[k].kind = "dtype"
                             /\ result.issues[k].column = Column(e.name)}
            IN  /\ Cardinality(found) = (IF SameDtype(s.dtype, e.rule.dtype) THEN 0 ELSE 1)
                /\ \A k \in found :
                      /\ result.issues[k].observed = PText(s.dtype)
                      /\ result.issues[k].expected = PText(e.rule.dtype)

\* a string rule matches an object column
DtypeWitness ==
    /\ op = "validate_contract" /\ WellFormed
    /\ \E i \in Checked :
          /\ contract.columns[i].rule.dtype = "string"
          /\ Series(df, contract.columns[i].name).dtype = "object"
          /\ CountIssues("dtype", contract.columns[i].name) = 0

\* C9: missingness check: a contract column present in the dataset gets one
\* missingness issue iff its fraction of missing entries is strictly greater
\* than max_missing_frac; a fraction equal to the threshold raises none.
MissingnessCheck ==
    op = "validate_contract" /\ WellFormed =>
        \A i \in Checked :
            LET e == contract.columns[i]
                s == Series(df, e.name)
            IN  CountIssues("missingness", e.name) =
                    (IF TooManyMissing(s, e.rule) THEN 1 ELSE 0)

\* half of a column is missing and the threshold is one half: no issue
MissingnessWitness ==
    /\ op = "validate_contract" /\ WellFormed
    /\ \E i \in Checked :
          LET e == contract.columns[i]
              s == Series(df, e.name)
          IN  /\ Len(s.values) = 2 /\ NaCount(s) = 1
              /\ e.rule.max_missing_frac = F(1, 2)
              /\ CountIssues("missingness", e.name) = 0

CategoryCheck ==
    op = "validate_contract" /\ WellFormed =>
        \A i \in Checked :
            LET e == contract.columns[i]
                s == Series(df, e.name)
            IN  /\ CountIssues("category", e.name) = (IF Disallowed(s, e.rule) THEN 1 ELSE 0)
                /\ e.rule.allowed_values.none => CountIssues("category", e.name) = 0

\* a column with two values outside the allowed values: one category issue
CategoryWitness ==
    /\ op = "validate_contract" /\ WellFormed
    /\ \E i \in Checked :
          LET e == contract.columns[i]
              s == Series(df, e.name)
          IN  /\ ~e.rule.allowed_values.none
              /\ Cardinality({AsTypeStr(c) : c \in DropNaUnique(s)}
                             \ e.rule.allowed_values.vals) = 2
              /\ CountIssues("category", e.name) = 1

\* the names of the columns of a DataFrame or Contract are pairwise distinct
DistinctNames(columns) ==
    \A i, j \in DOMAIN columns : columns[i].name = columns[j].name => i = j

\* C12: infer_contract of a DataFrame returns a Contract with exactly one rule
\* for each column of the DataFrame and no other; a DataFrame without columns
\* gives an empty rule map; an argument that is not a DataFrame raises
\* TypeError.
InferColumns ==
    op = "infer_contract" =>
        /\ df.kind = "DataFrame" =>
              /\ error = "none"
              /\ contract.kind = "Contract"
              /\ Names(contract.columns) = Names(df.columns)
              /\ Len(contract.columns) = Cardinality(Names(df.columns))
              /\ DistinctNames(contract.columns)
              /\ (df.columns = <<>> => contract.columns = <<>>)
        /\ df.kind # "DataFrame" => error = "TypeError"

\* infer_contract(None) raised TypeError
InferColumnsWitness ==
    op = "infer_contract" /\ df = NotAFrame("None") /\ error = "TypeError"

\* C13: a numeric (integer or float) column with a non-missing value gets
\* min_value and max_value equal to its minimum and maximum, min_value <=
\* max_value; a numeric column without non-missing values gets None for both;
\* a column that is not numeric (string, object, boolean, categorical) gets
\* None for both.  [1, 2, 3] gives min_value 1.0, max_value 3.0 and
\* allowed_values None.
NumericBounds ==
    Inferred =>
        /\ \A i \in DOMAIN contract.columns :
              LET s == df.columns[i]
                  r == contract.columns[i].rule
                  numeric == s.dtype \in {"int64", "float64"}
              IN  /\ numeric /\ Numbers(s) # {} =>
                        /\ r.min_value.k = "num" /\ r.max_value.k = "num"
                        /\ r.min_value.den = 1 /\ r.max_value.den = 1
                        /\ r.min_value.num \in Numbers(s)
                        /\ r.max_value.num \in Numbers(s)
                        /\ \A v \in Numbers(s) :
                              r.min_value.num <= v /\ v <= r.max_value.num
                        /\ r.min_value.num <= r.max_value.num
                  /\ numeric /\ Numbers(s) = {} =>
                        r.min_value = PyNone /\ r.max_value = PyNone
                  /\ ~numeric =>
                        r.min_value = PyNone /\ r.max_value = PyNone
        /\ df \in ScenarioFrames =>
              /\ contract.columns[1].rule.min_value = F(1, 1)
              /\ contract.columns[1].rule.max_value = F(3, 1)
              /\ contract.columns[1].rule.allowed_values = NoValues

Compared == op = "compare_contracts"

Reported == Compared /\ error = "none"

\* the validity preconditions of a rule and of a contract
NotRule(rule) == rule.kind # "ColumnRule"

BadFrac(rule) ==
    \/ rule.max_missing_frac.k # "num"
    \/ rule.max_missing_frac.num < 0
    \/ rule.max_missing_frac.num > rule.max_missing_frac.den

BadRange(rule) ==
    /\ rule.min_value.k = "num" /\ rule.max_value.k = "num"
    /\ rule.min_value.num * rule.max_value.den > rule.max_value.num * rule.min_value.den

ValidRule(rule) == ~NotRule(rule) /\ ~BadFrac(rule) /\ ~BadRange(rule)

ValidContract(c) ==
    /\ c.kind = "Contract"
    /\ \A i \in DOMAIN c.columns : ValidRule(c.columns[i].rule)

\* the columns the two contracts have in common, each with its two rules
SharedRules ==
    {[name |-> contract.columns[i].name, a |-> contract.columns[i].rule,
      b |-> contract_b.columns[j].rule] :
        <<i, j>> \in {p \in (DOMAIN contract.columns) \X (DOMAIN contract_b.columns) :
                        contract.columns[p[1]].name = contract_b.columns[p[2]].name}}

\* C15: comparing a valid contract with itself gives a report with six empty
\* fields and has_drift False
SelfCompareNoDrift ==
    (Compared /\ contract = contract_b /\ ValidContract(contract)) =>
        /\ error = "none"
        /\ report.added_columns = {} /\ report.removed_columns = {}
        /\ DOMAIN report.dtype_changes = {}
        /\ report.range_changes = {} /\ report.category_changes = {}
        /\ DOMAIN report.missingness_changes = {}
        /\ drift = FALSE

SelfCompareWitness ==
    /\ Reported /\ contract = contract_b /\ ValidContract(contract)
    /\ Len(contract.columns) = 2
    /\ \E i \in DOMAIN contract.columns :
          /\ contract.columns[i].rule.min_value = PyNone
          /\ contract.columns[i].rule.allowed_values # NoValues
    /\ drift = FALSE

\* C16: added_columns is the columns of B that A lacks and removed_columns the
\* columns of A that B lacks, so swapping the arguments swaps the two fields
AddedRemoved ==
    Reported =>
        /\ report.added_columns =
             {n \in ColNames : /\ \E j \in DOMAIN contract_b.columns : contract_b.columns[j].name = n
                               /\ \A i \in DOMAIN contract.columns : contract.columns[i].name # n}
        /\ report.removed_columns =
             {n \in ColNames : /\ \E i \in DOMAIN contract.columns : contract.columns[i].name = n
                               /\ \A j \in DOMAIN contract_b.columns : contract_b.columns[j].name # n}
        /\ compare_contracts(contract_b, contract).error = "none"
        /\ report.added_columns = compare_contracts(contract_b, contract).report.removed_columns
        /\ report.removed_columns = compare_contracts(contract_b, contract).report.added_columns

AddedRemovedWitness ==
    /\ Reported
    /\ report.added_columns = {"city"}
    /\ report.removed_columns = {"age"}

\* C17: a shared column whose dtype differs is in dtype_changes as (dtype in A,
\* dtype in B) and in neither range_changes nor category_changes; it is in
\* missingness_changes, as (old, new), exactly when its max_missing_frac differs
DtypeSuppression ==
    Reported =>
        \A c \in SharedRules :
            c.a.dtype # c.b.dtype =>
                /\ c.name \in DOMAIN report.dtype_changes
                /\ report.dtype_changes[c.name] = <<c.a.dtype, c.b.dtype>>
                /\ c.name \notin report.range_changes
                /\ c.name \notin report.category_changes
                /\ (c.name \in DOMAIN report.missingness_changes)
                       <=> (c.a.max_missing_frac # c.b.max_missing_frac)
                /\ c.name \in DOMAIN report.missingness_changes =>
                       report.missingness_changes[c.name]
                           = <<c.a.max_missing_frac, c.b.max_missing_frac>>

DtypeSuppressionWitness ==
    /\ Reported
    /\ \E c \in SharedRules :
          /\ c.a.dtype = "int64" /\ c.b.dtype = "float64"
          /\ c.a.min_value # c.b.min_value
          /\ c.a.allowed_values # c.b.allowed_values
          /\ report.range_changes = {} /\ report.category_changes = {}
          /\ c.name \in DOMAIN report.missingness_changes
          /\ report.missingness_changes[c.name] = <<F(0, 1), F(1, 2)>>

\* C18: a shared column of unchanged dtype is in range_changes exactly when
\* its (min_value, max_value) pairs differ and in category_changes exactly
\* when its allowed_values differ; None against a value differs, None
\* against None does not
RangeAndCategoryChanges ==
    Reported =>
        \A c \in SharedRules :
            c.a.dtype = c.b.dtype =>
                /\ (c.name \in report.range_changes)
                       <=> (<<c.a.min_value, c.a.max_value>> # <<c.b.min_value, c.b.max_value>>)
                /\ (c.name \in report.category_changes)
                       <=> (c.a.allowed_values # c.b.allowed_values)

RangeAndCategoryWitness ==
    /\ Reported
    /\ \E c \in SharedRules :
          /\ c.a.dtype = c.b.dtype
          /\ c.a.min_value = PyNone /\ c.b.min_value = F(0, 1)
          /\ c.a.max_value = c.b.max_value
          /\ c.a.allowed_values # NoValues /\ c.b.allowed_values = NoValues
          /\ c.name \in report.range_changes
          /\ c.name \in report.category_changes

\* the first rule of a contract that breaks a precondition
FirstDefect(c) ==
    c.columns[CHOOSE i \in DOMAIN c.columns :
                /\ ~ValidRule(c.columns[i].rule)
                /\ \A j \in 1..(i - 1) : ValidRule(c.columns[j].rule)].rule

\* the error a rule that breaks a precondition stands for
DefectError(rule) == IF NotRule(rule) THEN "TypeError" ELSE "ValueError"

HasDriftIffAnyField ==
    Reported =>
        /\ drift <=> \/ report.added_columns # {}
                     \/ report.removed_columns # {}
                     \/ DOMAIN report.dtype_changes # {}
                     \/ report.range_changes # {}
                     \/ report.category_changes # {}
                     \/ DOMAIN report.missingness_changes # {}
        /\ (\E c \in SharedRules : c.a.max_missing_frac # c.b.max_missing_frac) => drift

HasDriftWitness ==
    /\ Reported
    /\ report.added_columns = {} /\ report.removed_columns = {}
    /\ DOMAIN report.dtype_changes = {}
    /\ report.range_changes = {} /\ report.category_changes = {}
    /\ DOMAIN report.missingness_changes = {"age"}
    /\ drift = TRUE

(***************************************************************************)
(* summarize_violations: what the claims speak about.                      *)
(***************************************************************************)
Summarizing == op = "summarize_violations"

Summarized == Summarizing /\ error = "none"

\* the weight the documentation gives a kind: the default table when weights
\* is omitted, the custom map otherwise, and 1 for a kind the table in use
\* does not hold
ResolvedWeight(kind) ==
    IF weights.t = "NoneType"
    THEN CASE kind = "missing_column" -> F(10, 1)
           [] kind = "extra_column" -> F(8, 1)
           [] kind = "dtype" -> F(7, 1)
           [] kind = "range" -> F(5, 1)
           [] kind = "category" -> F(5, 1)
           [] kind = "missingness" -> F(3, 1)
           [] OTHER -> F(1, 1)
    ELSE IF \E i \in DOMAIN weights.entries : weights.entries[i].kind = kind
    THEN weights.entries[CHOOSE i \in DOMAIN weights.entries : weights.entries[i].kind = kind].weight
    ELSE F(1, 1)

\* how often an issue occurs in a list
Occurrences(x, list) == Cardinality({i \in DOMAIN list : list[i] = x})

RECURSIVE SumCounts(_, _)
SumCounts(counts, kinds) ==
    IF kinds = {} THEN 0
    ELSE LET k == CHOOSE k \in kinds : TRUE
         IN  counts[k] + SumCounts(counts, kinds \ {k})

\* C21: counts_by_kind maps each kind that occurs in the full issue list to
\* the number of issues of that kind, so its values sum to len(result.issues),
\* whatever top_k is
CountInvariant ==
    Summarized =>
        /\ DOMAIN summary.counts_by_kind = {result.issues[i].kind : i \in DOMAIN result.issues}
        /\ \A k \in DOMAIN summary.counts_by_kind :
              summary.counts_by_kind[k]
                  = Cardinality({i \in DOMAIN result.issues : result.issues[i].kind = k})
        /\ SumCounts(summary.counts_by_kind, DOMAIN summary.counts_by_kind) = Len(result.issues)

CountInvariantWitness ==
    /\ Summarized
    /\ top_k = PyInt(1)
    /\ Len(result.issues) = 3
    /\ DOMAIN summary.counts_by_kind = {"range", "dtype"}
    /\ summary.counts_by_kind["range"] = 2

\* C22: top_issues has min(top_k, len(result.issues)) entries
TopKBound ==
    Summarized =>
        Len(summary.top_issues)
            = IF top_k.v.num < Len(result.issues) THEN top_k.v.num ELSE Len(result.issues)

TopKBoundWitness ==
    /\ Summarized
    /\ top_k = PyInt(2)
    /\ Len(result.issues) = 3
    /\ Len(summary.top_issues) = 2

\* issue i of the input comes before issue j in the ranking: a higher weight,
\* then no column before a column, then the column name, then the kind, then
\* the place in the input
RanksBefore(i, j) ==
    LET x == result.issues[i]
        y == result.issues[j]
    IN  \/ FloatGt(ResolvedWeight(x.kind), ResolvedWeight(y.kind))
        \/ /\ ResolvedWeight(x.kind) = ResolvedWeight(y.kind)
           /\ \/ (x.column.none /\ ~y.column.none)
              \/ (~x.column.none /\ ~y.column.none /\ StrLt(x.column.name, y.column.name))
              \/ /\ x.column = y.column
                 /\ (StrLt(x.kind, y.kind) \/ (x.kind = y.kind /\ i < j))

\* C23: top_issues is the first top_k entries of the issue list sorted by
\* descending weight, then column (None first, then by name), then kind, with
\* issues that tie on all three in their original order
Ranking ==
    Summarized =>
        \A p \in DOMAIN summary.top_issues :
            \E i \in DOMAIN result.issues :
                /\ Cardinality({j \in DOMAIN result.issues : RanksBefore(j, i)}) = p - 1
                /\ summary.top_issues[p] = result.issues[i]

RankingWitness ==
    /\ Summarized
    /\ weights = WeightsNone
    /\ result.issues
         = <<Issue("range", Column("age"), PNum(F(100, 1)), PNum(F(150, 1))),
             Issue("range", Column("age"), PNum(F(0, 1)), PNum(F(0 - 1, 1))),
             Issue("category", NoColumn, PSet({"Toronto"}), PSet({"Seattle"}))>>
    /\ summary.top_issues
         = <<Issue("category", NoColumn, PSet({"Toronto"}), PSet({"Seattle"})),
             Issue("range", Column("age"), PNum(F(100, 1)), PNum(F(150, 1))),
             Issue("range", Column("age"), PNum(F(0, 1)), PNum(F(0 - 1, 1)))>>

\* C24: the weights that rank the issues are the default table when weights
\* is omitted and the custom map alone otherwise, with 1 for every kind the
\* table in use does not hold
WeightsRankIssues ==
    Summarized =>
        /\ \A p, q \in DOMAIN summary.top_issues :
              p < q => ~FloatLt(ResolvedWeight(summary.top_issues[p].kind),
                                ResolvedWeight(summary.top_issues[q].kind))
        /\ \A i \in DOMAIN result.issues :
              summary.top_issues # <<>> =>
                  ~FloatLt(ResolvedWeight(summary.top_issues[1].kind),
                           ResolvedWeight(result.issues[i].kind))

WeightsRankWitness ==
    /\ Summarized
    /\ weights = WeightsDict(<<Entry("range", F(20, 1)), Entry("dtype", F(5, 1))>>)
    /\ Len(result.issues) = 3
    /\ result.issues[1].kind = "missing_column"
    /\ result.issues[2].kind = "dtype"
    /\ result.issues[3].kind = "range"
    /\ summary.top_issues = <<result.issues[3], result.issues[2], result.issues[1]>>

\* the call of scenario E: one issue of each kind of the default table,
\* default weights, top_k = 6
ScenarioE ==
    /\ Summarized
    /\ weights = WeightsNone
    /\ top_k = PyInt(6)
    /\ Len(result.issues) = 6
    /\ {result.issues[i].kind : i \in DOMAIN result.issues}
         = {"missing_column", "extra_column", "dtype", "range", "category", "missingness"}

ScenarioEOrder ==
    [p \in DOMAIN summary.top_issues |-> summary.top_issues[p].kind]
        = <<"missing_column", "extra_column", "dtype", "range", "category", "missingness">>

\* the column of the issue of a kind
ColumnOf(kind) ==
    result.issues[CHOOSE i \in DOMAIN result.issues : result.issues[i].kind = kind].column

\* C25: scenario E returns the kinds in the order missing_column,
\* extra_column, dtype, range, category, missingness for every assignment of
\* columns and every input order
ScenarioEAnyColumns == ScenarioE => ScenarioEOrder

\* C25, amended: scenario E returns the kinds in that order exactly when the
\* column of the range issue sorts before the column of the category issue
\* (None before a name, names alphabetically), for every input order
ScenarioEByColumn ==
    ScenarioE =>
        (ScenarioEOrder <=>
            \/ (ColumnOf("range").none /\ ~ColumnOf("category").none)
            \/ /\ ~ColumnOf("range").none /\ ~ColumnOf("category").none
               /\ StrLt(ColumnOf("range").name, ColumnOf("category").name))

ScenarioEWitness ==
    /\ ScenarioE
    /\ ColumnOf("range") = Column("age")
    /\ ColumnOf("category") = Column("city")
    /\ result.issues[1].kind = "missingness"
    /\ result.issues[2].kind = "category"
    /\ ScenarioEOrder

\* the first entry of the custom weights that is not a positive number
FirstBadWeight ==
    weights.entries[CHOOSE i \in DOMAIN weights.entries :
        /\ ~(weights.entries[i].weight.k = "num" /\ weights.entries[i].weight.num > 0)
        /\ \A j \in 1..(i - 1) :
              weights.entries[j].weight.k = "num" /\ weights.entries[j].weight.num > 0]

\* C26: the arguments are checked in the order result, top_k type, top_k
\* value, weights type, weight values, and the first check that fails raises,
\* also when result.issues is empty; a call that raises returns no summary
InputValidation ==
    Summarizing =>
        LET bad_result == result.kind # "ValidationResult"
            bad_type == top_k.t # "int"
            bad_value == ~bad_type /\ top_k.v.num <= 0
            bad_weights == weights.t \notin {"NoneType", "dict"}
            bad_weight == \E i \in DOMAIN weights.entries :
                             ~(weights.entries[i].weight.k = "num"
                               /\ weights.entries[i].weight.num > 0)
        IN  /\ bad_result =>
                  (error = "TypeError" /\ message = "result must be a ValidationResult instance")
            /\ (~bad_result /\ bad_type) =>
                  (error = "TypeError" /\ message = "top_k must be an integer")
            /\ (~bad_result /\ bad_value) =>
                  (error = "ValueError" /\ message = "top_k must be a positive integer")
            /\ (~bad_result /\ ~bad_type /\ ~bad_value /\ bad_weights) =>
                  (error = "TypeError" /\ message = "weights must be a dict or None")
            /\ (~bad_result /\ ~bad_type /\ ~bad_value /\ ~bad_weights /\ bad_weight) =>
                  /\ error = "ValueError"
                  /\ message = "Weight for '" \o FirstBadWeight.kind \o "' must be "
                                  \o (IF FirstBadWeight.weight.k = "num"
                                      THEN "positive" ELSE "numeric")
            /\ (~bad_result /\ ~bad_type /\ ~bad_value /\ ~bad_weights /\ ~bad_weight) =>
                  error = "none"
            /\ error # "none" => summary = NoSummary

InputValidationWitness ==
    /\ Summarizing
    /\ result = ValidationResult(TRUE, <<>>)
    /\ top_k = PyInt(0)
    /\ weights = NotADict("list")
    /\ error = "ValueError"
    /\ message = "top_k must be a positive integer"

\* C27: summary.ok is result.ok whatever the issues are, and a result without
\* issues gives top_issues = [] and counts_by_kind = {} for every top_k and
\* weights
OkMirrorsResult ==
    Summarized =>
        /\ summary.ok = result.ok
        /\ result.issues = <<>> =>
              (summary.top_issues = <<>> /\ DOMAIN summary.counts_by_kind = {})

OkMirrorsWitness ==
    /\ Summarized
    /\ result.ok = TRUE
    /\ Len(result.issues) = 1
    /\ weights # WeightsNone
    /\ summary.ok = TRUE
    /\ Len(summary.top_issues) = 1

(***************************************************************************)
(* validate_contract: the order of the issues.                             *)
(***************************************************************************)
\* the place of a contract column in contract.columns
ColumnIndex(name) == CHOOSE i \in DOMAIN contract.columns : contract.columns[i].name = name

\* the place of a per-column issue among the issues of its column
CheckIndex(issue) ==
    CASE issue.kind = "dtype" -> 1
      [] issue.kind = "missingness" -> 2
      [] issue.kind = "range" -> IF FloatLt(issue.observed.f, issue.expected.f) THEN 3 ELSE 4
      [] OTHER -> 5

\* the place the documentation gives an issue: missing columns, extra
\* columns, then the columns of the contract one by one
Place(issue) ==
    CASE issue.kind = "missing_column" -> 0
      [] issue.kind = "extra_column" -> 1
      [] OTHER -> 10 * ColumnIndex(issue.column.name) + CheckIndex(issue)

\* C28: missing_column issues come first, then extra_column issues, then the
\* issues of each column in the contract's column order, within a column
\* dtype, missingness, range (minimum), range (maximum), category
IssueOrder ==
    (op \in {"validate_contract", "round_trip"} /\ error = "none") =>
        \A i, j \in DOMAIN result.issues :
            i < j =>
                /\ Place(result.issues[i]) <= Place(result.issues[j])
                /\ Place(result.issues[i]) >= 10 =>
                       Place(result.issues[i]) < Place(result.issues[j])

IssueOrderWitness ==
    /\ op = "validate_contract" /\ error = "none"
    /\ [i \in DOMAIN result.issues |-> result.issues[i].kind]
         = <<"missing_column", "dtype", "range">>

(***************************************************************************)
(* infer_contract, then compare_contracts.                                 *)
(***************************************************************************)
\* C29: the contract inferred from any DataFrame passes the checks of
\* compare_contracts and compared with itself shows no drift in any field
InferCompareNoDrift ==
    op = "infer_compare" =>
        /\ error = "none"
        /\ report.added_columns = {} /\ report.removed_columns = {}
        /\ DOMAIN report.dtype_changes = {}
        /\ report.range_changes = {} /\ report.category_changes = {}
        /\ DOMAIN report.missingness_changes = {}
        /\ drift = FALSE

\* C30: top_issues holds no issue more often than result.issues does,
\* result.issues is the same list after the call, and no issue that is left
\* out weighs more than an issue that is kept
SelectionSound ==
    Summarized =>
        /\ \A p \in DOMAIN summary.top_issues :
              /\ Occurrences(summary.top_issues[p], result.issues) >= 1
              /\ Occurrences(summary.top_issues[p], summary.top_issues)
                     <= Occurrences(summary.top_issues[p], result.issues)
        /\ issues_after = result.issues
        /\ \A i \in DOMAIN result.issues :
              Occurrences(result.issues[i], summary.top_issues)
                  < Occurrences(result.issues[i], result.issues) =>
                  \A p \in DOMAIN summary.top_issues :
                      ~FloatGt(ResolvedWeight(result.issues[i].kind),
                               ResolvedWeight(summary.top_issues[p].kind))

SelectionSoundWitness ==
    /\ Summarized
    /\ weights = WeightsNone
    /\ top_k = PyInt(1)
    /\ Len(result.issues) = 3
    /\ result.issues[1].kind = "custom"
    /\ result.issues[2] = result.issues[3]
    /\ result.issues[3].kind = "dtype"
    /\ summary.top_issues = <<result.issues[2]>>
    /\ issues_after = result.issues

====
